---------------------------- MODULE Spec2Model ----------------------------
(***************************************************************************)
(* Model of run_singularity.py: the launcher that turns host paths and     *)
(* options into one `singularity exec` invocation.                          *)
(*                                                                          *)
(* Strings are sequences of tokens.  A token is one character ("/", ".")    *)
(* or a literal word that holds no "/" and is not made of dots only, so a   *)
(* path component is "." or ".." exactly when it is <<".">> or              *)
(* <<".", ".">>.  The token alphabet is uniquely decodable (no word is the  *)
(* concatenation of other tokens), so two token sequences are equal exactly *)
(* when the strings they spell are equal.                                   *)
(***************************************************************************)
EXTENDS Integers, Sequences, FiniteSets

VARIABLES
    cwd,                   \* os.getcwd(): the process's working directory
    ROOT_MOUNT_DIRECTORY,  \* module global, line 11
    CONTAINER_IMAGE,       \* module global, line 10
    AVAILABLE_MODELS,      \* module global, lines 12-18
    pc,                    \* position of the launcher in main()
    argv,                  \* the command line given by the user
    args,                  \* the namespace returned by parse_arguments()
    i,                     \* index of the next fasta path (loop of line 56)
    k,                     \* index of the next arg_paths entry (loop of line 74)
    mounts,                \* main's list `mounts`
    command_args,          \* main's list `command_args`
    target_fasta_paths,    \* main's list `target_fasta_paths`
    output_target_path,    \* main's local of lines 80-82
    command,               \* main's list `command`
    stdout,                \* the lines printed so far
    spawned,               \* the commands handed to subprocess.run so far
    childStatus,           \* state of the child process
    exitStatus,            \* the launcher's own exit status, once it has exited
    call,                  \* arguments of a pending direct call of generate_mount
    calls                  \* the direct calls of generate_mount made so far

vars == <<cwd, ROOT_MOUNT_DIRECTORY, CONTAINER_IMAGE, AVAILABLE_MODELS, pc, argv,
          args, i, k, mounts, command_args, target_fasta_paths,
          output_target_path, command, stdout, spawned, childStatus,
          exitStatus, call, calls>>

globals == <<ROOT_MOUNT_DIRECTORY, CONTAINER_IMAGE, AVAILABLE_MODELS>>

runVars == <<pc, argv, args, i, k, mounts, command_args, target_fasta_paths,
             output_target_path, command, stdout, spawned, childStatus,
             exitStatus>>

----------------------------------------------------------------------------
(* Bounds of the model.                                                     *)

\* longest host path (in tokens) given to a direct call of generate_mount
MaxPathLen == 4
\* most direct calls of generate_mount in one behaviour of SpecCalls
MaxCalls == 3
\* most paths given to --fasta-paths
MaxFasta == 2

----------------------------------------------------------------------------
(* Python's string operations.                                              *)

sep == "/"

\* sep.join(list)
RECURSIVE Join(_, _)
Join(s, list) ==
    IF list = <<>> THEN <<>>
    ELSE IF Len(list) = 1 THEN list[1]
    ELSE list[1] \o s \o Join(s, Tail(list))

\* s.split(c), c a single token
RECURSIVE Split(_, _)
Split(s, c) ==
    IF \A j \in 1..Len(s) : s[j] # c THEN <<s>>
    ELSE LET first == CHOOSE x \in 1..Len(s) :
                          s[x] = c /\ \A y \in 1..(x - 1) : s[y] # c
         IN <<SubSeq(s, 1, first - 1)>> \o Split(SubSeq(s, first + 1, Len(s)), c)

\* s.rfind(sep) + 1
AfterLastSep(s) ==
    IF \E j \in 1..Len(s) : s[j] = sep
    THEN CHOOSE j \in 1..Len(s) : s[j] = sep /\ \A y \in (j + 1)..Len(s) : s[y] # sep
    ELSE 0

\* s.rstrip(sep)
RECURSIVE RStrip(_)
RStrip(s) ==
    IF s # <<>> /\ s[Len(s)] = sep THEN RStrip(SubSeq(s, 1, Len(s) - 1)) ELSE s

AllSep(s) == \A j \in 1..Len(s) : s[j] = sep

\* s.startswith(sep), s.endswith(sep)
StartsWithSep(s) == s # <<>> /\ s[1] = sep
EndsWithSep(s) == s # <<>> /\ s[Len(s)] = sep

Digit(d) ==
    CASE d = 0 -> "0" [] d = 1 -> "1" [] d = 2 -> "2" [] d = 3 -> "3"
      [] d = 4 -> "4" [] d = 5 -> "5" [] d = 6 -> "6" [] d = 7 -> "7"
      [] d = 8 -> "8" [] d = 9 -> "9"

\* str(n) for n >= 0, as the f-string of line 57 formats the index
RECURSIVE IntToStr(_)
IntToStr(n) ==
    IF n < 10 THEN <<Digit(n)>> ELSE IntToStr(n \div 10) \o <<Digit(n % 10)>>

\* str(b) for a bool, as the f-string of line 92 formats args.benchmark
BoolToStr(b) == IF b THEN <<"True">> ELSE <<"False">>

----------------------------------------------------------------------------
(* posixpath, as the launcher uses it.                                      *)

\* os.path.join(a, b)
PathJoin(a, b) ==
    IF StartsWithSep(b) THEN b
    ELSE IF a = <<>> \/ EndsWithSep(a) THEN a \o b
    ELSE a \o <<sep>> \o b

\* os.path.join(a, *rest)
RECURSIVE PathJoinAll(_, _)
PathJoinAll(a, rest) ==
    IF rest = <<>> THEN a ELSE PathJoinAll(PathJoin(a, rest[1]), Tail(rest))

\* os.path.basename(p)
basename(p) == SubSeq(p, AfterLastSep(p) + 1, Len(p))

\* os.path.dirname(p)
dirname(p) ==
    LET head == SubSeq(p, 1, AfterLastSep(p))
    IN IF head # <<>> /\ ~AllSep(head) THEN RStrip(head) ELSE head

curdir == <<".">>
pardir == <<".", ".">>

\* the component loop of os.path.normpath
RECURSIVE NormComps(_, _, _)
NormComps(comps, new_comps, initial_slashes) ==
    IF comps = <<>> THEN new_comps
    ELSE LET comp == comps[1]
             rest == Tail(comps)
         IN IF comp = <<>> \/ comp = curdir
            THEN NormComps(rest, new_comps, initial_slashes)
            ELSE IF \/ comp # pardir
                    \/ (initial_slashes = 0 /\ new_comps = <<>>)
                    \/ (new_comps # <<>> /\ new_comps[Len(new_comps)] = pardir)
            THEN NormComps(rest, Append(new_comps, comp), initial_slashes)
            ELSE IF new_comps # <<>>
            THEN NormComps(rest, SubSeq(new_comps, 1, Len(new_comps) - 1),
                           initial_slashes)
            ELSE NormComps(rest, new_comps, initial_slashes)

\* os.path.normpath(p)
normpath(p) ==
    IF p = <<>> THEN curdir
    ELSE LET initial_slashes ==
                 IF ~StartsWithSep(p) THEN 0
                 ELSE IF Len(p) >= 2 /\ p[2] = sep /\ ~(Len(p) >= 3 /\ p[3] = sep)
                 THEN 2
                 ELSE 1
             joined == Join(<<sep>>, NormComps(Split(p, sep), <<>>, initial_slashes))
             path == [j \in 1..initial_slashes |-> sep] \o joined
         IN IF path = <<>> THEN curdir ELSE path

\* os.path.abspath(p), in working directory wd
abspath(wd, p) ==
    IF StartsWithSep(p) THEN normpath(p) ELSE normpath(PathJoin(wd, p))

----------------------------------------------------------------------------
(* generate_mount, lines 121-134.                                           *)

\* the mount line of line 133
MountCmd(source_path, target_path, opts) ==
    source_path \o <<":">> \o target_path \o <<":">> \o opts

\* the modes of line 131 exchanged
OptsSwapped(read_only) == IF read_only THEN <<"rw">> ELSE <<"ro">>

\* line 131
Opts(read_only) == IF read_only THEN <<"ro">> ELSE <<"rw">>

\* generate_mount without the abspath of line 128
generate_mount_noabs(mount_name, path, read_only) ==
    LET source_path == dirname(path)
        target_path == PathJoin(ROOT_MOUNT_DIRECTORY, mount_name)
    IN <<MountCmd(source_path, target_path, Opts(read_only)),
         PathJoin(target_path, basename(path))>>

\* generate_mount without the dirname of line 129: the path itself is mounted
generate_mount_self(mount_name, path, read_only) ==
    LET abs == abspath(cwd, path)
        target_path == PathJoin(ROOT_MOUNT_DIRECTORY, mount_name)
    IN <<MountCmd(abs, target_path, Opts(read_only)),
         PathJoin(target_path, basename(abs))>>

\* the pair (mount line, container-visible path) generate_mount returns
generate_mount(mount_name, path, read_only) ==
    LET abs == abspath(cwd, path)
        source_path == dirname(abs)
        target_path == PathJoin(ROOT_MOUNT_DIRECTORY, mount_name)
        opts == Opts(read_only)
    IN <<MountCmd(source_path, target_path, opts),
         PathJoin(target_path, basename(abs))>>

----------------------------------------------------------------------------
(* Direct calls of generate_mount: the function under a caller that is not  *)
(* main.                                                                    *)

\* a generate_mount that rebinds the global ROOT_MOUNT_DIRECTORY to its target
InvokeRebindsRoot(mount_name, path, read_only) ==
    /\ calls' = Append(calls, [mount_name |-> mount_name, path |-> path,
                               read_only |-> read_only,
                               result |-> generate_mount(mount_name, path, read_only)])
    /\ ROOT_MOUNT_DIRECTORY' = PathJoin(ROOT_MOUNT_DIRECTORY, mount_name)
    /\ UNCHANGED <<cwd, CONTAINER_IMAGE, AVAILABLE_MODELS, runVars, call>>

\* a direct call: generate_mount reads cwd and ROOT_MOUNT_DIRECTORY, returns
\* its pair and assigns no global
Invoke(mount_name, path, read_only) ==
    /\ calls' = Append(calls, [mount_name |-> mount_name, path |-> path,
                               read_only |-> read_only,
                               result |-> generate_mount(mount_name, path, read_only)])
    /\ UNCHANGED <<cwd, globals, runVars, call>>

----------------------------------------------------------------------------
(* The module's globals and the process's environment.                      *)

RootMountDirectory == <<"/", "mnt">>

ContainerImage ==
    <<"docker", ":", "/", "/", "catgumag", "/", "alphafold", ":", "latest">>

AvailableModels ==
    << <<"model_1">>, <<"model_2">>, <<"model_3">>, <<"model_4">>, <<"model_5">> >>

GlobalsInit ==
    /\ ROOT_MOUNT_DIRECTORY = RootMountDirectory
    /\ CONTAINER_IMAGE = ContainerImage
    /\ AVAILABLE_MODELS = AvailableModels

\* working directories the launcher is started in (absolute, normalised)
Cwds == { <<"/">>, <<"/", "w">> }

\* datetime.today().strftime("%Y-%m-%d"), line 154
Today == <<"2026", "-", "11", "-", "02">>

Range(s) == { s[j] : j \in 1..Len(s) }

\* all sequences over S of length lo..hi
SeqsOf(S, lo, hi) == UNION { [1..n -> S] : n \in lo..hi }

----------------------------------------------------------------------------
(* The command line: each option is given or omitted.                       *)

Omitted == [given |-> FALSE, value |-> <<>>]
Given(v) == [given |-> TRUE, value |-> v]

FastaChoices ==
    { <<"/", "a", "/", "seq1.fasta">>,
      <<"/", "b", "/", "seq2.fasta">>,
      <<"/", "b", "/", "seq1.fasta">> }

ModelsChoices ==
    { Omitted,
      Given(<< <<"model_2">>, <<"model_1">> >>),
      Given(<< <<"model_6">> >>) }

DataDirChoices ==
    { Omitted, Given(<<"/", "db">>), Given(<<>>), Given(<<"/">>) }

OutputDirChoices == { Omitted, Given(<<"/", "out">>), Given(<<"/">>) }

\* --max-template-date, --preset and --benchmark, varied together
ScalarChoices ==
    { [max_template_date |-> Omitted, preset |-> Omitted, benchmark |-> FALSE],
      [max_template_date |-> Given(<<"2020", "-", "05", "-", "14">>),
       preset |-> Given(<<"casp14">>), benchmark |-> TRUE],
      [max_template_date |-> Omitted, preset |-> Given(<<"reduced_dbs">>),
       benchmark |-> FALSE] }

Argvs ==
    { [ fasta_paths |-> f,
        max_template_date |-> s.max_template_date,
        preset |-> s.preset,
        benchmark |-> s.benchmark,
        models |-> m,
        data_dir |-> d,
        output_dir |-> o ] :
      f \in {Omitted} \cup { Given(x) : x \in SeqsOf(FastaChoices, 1, MaxFasta) },
      s \in ScalarChoices, m \in ModelsChoices, d \in DataDirChoices,
      o \in OutputDirChoices }

----------------------------------------------------------------------------
(* parse_arguments, lines 137-196.                                          *)

\* argparse accepts the command line
ArgvAccepted(a) ==
    /\ a.fasta_paths.given /\ Len(a.fasta_paths.value) >= 1
    /\ a.preset.given => a.preset.value \in { <<"full_dbs">>, <<"casp14">> }
    /\ a.models.given =>
          /\ Len(a.models.value) >= 1
          /\ \A j \in 1..Len(a.models.value) : a.models.value[j] \in Range(AVAILABLE_MODELS)

Default(opt, dflt) == IF opt.given THEN opt.value ELSE dflt

\* parse_arguments with default=AVAILABLE_MODELS[0] for --models
parse_arguments_first_model(a) ==
    [ fasta_paths |-> a.fasta_paths.value,
      max_template_date |-> Default(a.max_template_date, Today),
      preset |-> Default(a.preset, <<"full_dbs">>),
      benchmark |-> a.benchmark,
      models |-> Default(a.models, <<AVAILABLE_MODELS[1]>>),
      data_dir |-> Default(a.data_dir, <<".", "/", "databases", "/">>),
      output_dir |-> Default(a.output_dir, <<"results", "/">>) ]

\* the namespace parser.parse_args() returns
parse_arguments(a) ==
    [ fasta_paths |-> a.fasta_paths.value,
      max_template_date |-> Default(a.max_template_date, Today),
      preset |-> Default(a.preset, <<"full_dbs">>),
      benchmark |-> a.benchmark,
      models |-> Default(a.models, AVAILABLE_MODELS),
      data_dir |-> Default(a.data_dir, <<".", "/", "databases", "/">>),
      output_dir |-> Default(a.output_dir, <<"results", "/">>) ]

NoArgs ==
    [ fasta_paths |-> <<>>, max_template_date |-> <<>>, preset |-> <<>>,
      benchmark |-> FALSE, models |-> <<>>, data_dir |-> <<>>, output_dir |-> <<>> ]

----------------------------------------------------------------------------
(* main, lines 21-118.                                                      *)

\* lines 24-49 and 63-72: the database paths under data_dir, as (name, path)
arg_paths(data_dir) ==
    << << <<"uniref90_database_path">>,
          PathJoinAll(data_dir, << <<"uniref90">>, <<"uniref90.fasta">> >>) >>,
       << <<"mgnify_database_path">>,
          PathJoinAll(data_dir, << <<"mgnify">>, <<"mgy_clusters.fa">> >>) >>,
       << <<"uniclust30_database_path">>,
          PathJoinAll(data_dir, << <<"uniclust30">>, <<"uniclust30_2018_08">>,
                                   <<"uniclust30_2018_08">> >>) >>,
       << <<"bfd_database_path">>,
          PathJoinAll(data_dir,
              << <<"bfd">>,
                 <<"bfd_metaclust_clu_complete_id30_c90_final_seq.sorted_opt">> >>) >>,
       << <<"pdb70_database_path">>,
          PathJoinAll(data_dir, << <<"pdb70">>, <<"pdb70">> >>) >>,
       << <<"data_dir">>, data_dir >>,
       << <<"template_mmcif_dir">>,
          PathJoinAll(data_dir, << <<"pdb_mmcif">>, <<"mmcif_files">> >>) >>,
       << <<"obsolete_pdbs_path">>,
          PathJoinAll(data_dir, << <<"pdb_mmcif">>, <<"obsolete.dat">> >>) >> >>

\* the mount name of line 57 without its index
FastaMountNameNoIndex(n) == <<"fasta_path_">>

\* f"fasta_path_{i}", line 57
FastaMountName(n) == <<"fasta_path_">> \o IntToStr(n)

\* f"--{name}={value}", lines 60, 78, 88-92
Flag(name, value) == <<"--">> \o name \o <<"=">> \o value

\* lines 98-101 and 110
EnvFlags ==
    << <<"--env=", "\"", "TF_FORCE_UNIFIED_MEMORY", "=", "1", "\"">>,
       <<"--env=", "\"", "XLA_PYTHON_CLIENT_MEM_FRACTION", "=", "4.0", "\"">> >>

NoChild == [state |-> "none", code |-> 0]

\* exit codes the container process may end with
ChildExitCodes == {0, 1}

\* line 22: argparse accepts the command line and returns the namespace
ParseArguments ==
    /\ pc = "start"
    /\ ArgvAccepted(argv)
    /\ args' = parse_arguments(argv)
    /\ pc' = "init"
    /\ UNCHANGED <<cwd, globals, argv, i, k, mounts, command_args,
                   target_fasta_paths, output_target_path, command, stdout,
                   spawned, childStatus, exitStatus, call, calls>>

\* line 196: parser.parse_args() rejects the command line and exits with 2
ParseError ==
    /\ pc = "start"
    /\ ~ArgvAccepted(argv)
    /\ pc' = "exited"
    /\ exitStatus' = <<2>>
    /\ UNCHANGED <<cwd, globals, argv, args, i, k, mounts, command_args,
                   target_fasta_paths, output_target_path, command, stdout,
                   spawned, childStatus, call, calls>>

\* lines 51-55
InitLists ==
    /\ pc = "init"
    /\ mounts' = <<>>
    /\ command_args' = <<>>
    /\ target_fasta_paths' = <<>>
    /\ i' = 0
    /\ pc' = "fasta_loop"
    /\ UNCHANGED <<cwd, globals, argv, args, k, output_target_path, command,
                   stdout, spawned, childStatus, exitStatus, call, calls>>

\* lines 56-59: one iteration of the loop over args.fasta_paths
FastaMount ==
    /\ pc = "fasta_loop"
    /\ i < Len(args.fasta_paths)
    /\ LET r == generate_mount(FastaMountName(i), args.fasta_paths[i + 1], TRUE)
       IN /\ mounts' = Append(mounts, r[1])
          /\ target_fasta_paths' = Append(target_fasta_paths, r[2])
    /\ i' = i + 1
    /\ UNCHANGED <<cwd, globals, pc, argv, args, k, command_args,
                   output_target_path, command, stdout, spawned, childStatus,
                   exitStatus, call, calls>>

\* line 60, after the loop
FastaFlag ==
    /\ pc = "fasta_loop"
    /\ i = Len(args.fasta_paths)
    /\ command_args' = Append(command_args,
                              Flag(<<"fasta_paths">>, Join(<<",">>, target_fasta_paths)))
    /\ k' = 0
    /\ pc' = "arg_paths"
    /\ UNCHANGED <<cwd, globals, argv, args, i, mounts, target_fasta_paths,
                   output_target_path, command, stdout, spawned, childStatus,
                   exitStatus, call, calls>>

\* the loop of lines 74-78 with the flag appended outside the `if path:`
ArgPathMountFlagAlways ==
    /\ pc = "arg_paths"
    /\ k < Len(arg_paths(args.data_dir))
    /\ LET name == arg_paths(args.data_dir)[k + 1][1]
           path == arg_paths(args.data_dir)[k + 1][2]
           r == generate_mount(name, path, TRUE)
       IN /\ mounts' = IF path # <<>> THEN Append(mounts, r[1]) ELSE mounts
          /\ command_args' = Append(command_args, Flag(name, r[2]))
    /\ k' = k + 1
    /\ UNCHANGED <<cwd, globals, pc, argv, args, i, target_fasta_paths,
                   output_target_path, command, stdout, spawned, childStatus,
                   exitStatus, call, calls>>

\* lines 74-78: one iteration of the loop over arg_paths
ArgPathMount ==
    /\ pc = "arg_paths"
    /\ k < Len(arg_paths(args.data_dir))
    /\ LET name == arg_paths(args.data_dir)[k + 1][1]
           path == arg_paths(args.data_dir)[k + 1][2]
           r == generate_mount(name, path, TRUE)
       IN IF path # <<>>
          THEN /\ mounts' = Append(mounts, r[1])
               /\ command_args' = Append(command_args, Flag(name, r[2]))
          ELSE UNCHANGED <<mounts, command_args>>
    /\ k' = k + 1
    /\ UNCHANGED <<cwd, globals, pc, argv, args, i, target_fasta_paths,
                   output_target_path, command, stdout, spawned, childStatus,
                   exitStatus, call, calls>>

\* lines 80-83
OutputMount ==
    /\ pc = "arg_paths"
    /\ k = Len(arg_paths(args.data_dir))
    /\ LET r == generate_mount(<<"output">>, args.output_dir, FALSE)
       IN /\ mounts' = Append(mounts, r[1])
          /\ output_target_path' = r[2]
    /\ pc' = "options"
    /\ UNCHANGED <<cwd, globals, argv, args, i, k, command_args,
                   target_fasta_paths, command, stdout, spawned, childStatus,
                   exitStatus, call, calls>>

\* lines 86-95
GeneralOptions ==
    /\ pc = "options"
    /\ command_args' = command_args \o
          << Flag(<<"output_dir">>, output_target_path),
             Flag(<<"model_names">>, Join(<<",">>, args.models)),
             Flag(<<"max_template_date">>, args.max_template_date),
             Flag(<<"preset">>, args.preset),
             Flag(<<"benchmark">>, BoolToStr(args.benchmark)),
             <<"--logtostderr">> >>
    /\ pc' = "build"
    /\ UNCHANGED <<cwd, globals, argv, args, i, k, mounts, target_fasta_paths,
                   output_target_path, command, stdout, spawned, childStatus,
                   exitStatus, call, calls>>

\* lines 104-114
BuildCommand ==
    /\ pc = "build"
    /\ command' = << <<"singularity">>, <<"exec">>, <<"--nv">>, <<"--bind">>,
                     Join(<<",">>, mounts) >>
                  \o EnvFlags
                  \o << CONTAINER_IMAGE, <<"/", "app", "/", "run_alphafold.sh">> >>
                  \o command_args
    /\ pc' = "print"
    /\ UNCHANGED <<cwd, globals, argv, args, i, k, mounts, command_args,
                   target_fasta_paths, output_target_path, stdout, spawned,
                   childStatus, exitStatus, call, calls>>

\* line 116
PrintCommand ==
    /\ pc = "print"
    /\ stdout' = Append(stdout, <<"Executing: ">> \o Join(<<" ">>, command))
    /\ pc' = "spawn"
    /\ UNCHANGED <<cwd, globals, argv, args, i, k, mounts, command_args,
                   target_fasta_paths, output_target_path, command, spawned,
                   childStatus, exitStatus, call, calls>>

\* line 118: subprocess.run starts the child and waits for it
SpawnChild ==
    /\ pc = "spawn"
    /\ spawned' = Append(spawned, command)
    /\ childStatus' = [state |-> "running", code |-> 0]
    /\ pc' = "wait"
    /\ UNCHANGED <<cwd, globals, argv, args, i, k, mounts, command_args,
                   target_fasta_paths, output_target_path, command, stdout,
                   exitStatus, call, calls>>

\* the container process ends with some exit code
ChildExit ==
    /\ childStatus.state = "running"
    /\ \E c \in ChildExitCodes : childStatus' = [state |-> "exited", code |-> c]
    /\ UNCHANGED <<cwd, globals, pc, argv, args, i, k, mounts, command_args,
                   target_fasta_paths, output_target_path, command, stdout,
                   spawned, exitStatus, call, calls>>

\* a launcher that runs the command again when the child fails
ReturnRetry ==
    /\ pc = "wait"
    /\ childStatus.state = "exited"
    /\ IF childStatus.code # 0 /\ Len(spawned) < 2
       THEN /\ pc' = "spawn"
            /\ UNCHANGED exitStatus
       ELSE /\ pc' = "exited"
            /\ exitStatus' = <<0>>
    /\ UNCHANGED <<cwd, globals, argv, args, i, k, mounts, command_args,
                   target_fasta_paths, output_target_path, command, stdout,
                   spawned, childStatus, call, calls>>

\* lines 118 and 200: subprocess.run returns, its CompletedProcess is dropped,
\* main returns None and the interpreter exits with status 0
Return ==
    /\ pc = "wait"
    /\ childStatus.state = "exited"
    /\ pc' = "exited"
    /\ exitStatus' = <<0>>
    /\ UNCHANGED <<cwd, globals, argv, args, i, k, mounts, command_args,
                   target_fasta_paths, output_target_path, command, stdout,
                   spawned, childStatus, call, calls>>

NoCall == [mount_name |-> <<>>, path |-> <<>>, read_only |-> TRUE]

Init ==
    /\ cwd \in Cwds
    /\ GlobalsInit
    /\ pc = "start"
    /\ argv \in Argvs
    /\ args = NoArgs
    /\ i = 0
    /\ k = 0
    /\ mounts = <<>>
    /\ command_args = <<>>
    /\ target_fasta_paths = <<>>
    /\ output_target_path = <<>>
    /\ command = <<>>
    /\ stdout = <<>>
    /\ spawned = <<>>
    /\ childStatus = NoChild
    /\ exitStatus = <<>>
    /\ call = NoCall
    /\ calls = <<>>

Next ==
    \/ ParseArguments
    \/ ParseError
    \/ InitLists
    \/ FastaMount
    \/ FastaFlag
    \/ ArgPathMount
    \/ OutputMount
    \/ GeneralOptions
    \/ BuildCommand
    \/ PrintCommand
    \/ SpawnChild
    \/ ChildExit
    \/ Return

Spec == Init /\ [][Next]_vars

----------------------------------------------------------------------------
(* generate_mount called directly, over every host path of at most          *)
(* MaxPathLen tokens, then once more with a path of another depth.          *)

PathAlphabet == { "/", ".", "a", "b" }

PathEnum == SeqsOf(PathAlphabet, 0, MaxPathLen)

\* the launcher's kinds of mount name, and names that are not plain
NameChoices ==
    { <<"output">>, <<"data_dir">>, <<"fasta_path_", "0">>,
      <<>>, <<"/", "a">>, <<"a", "/">> }

\* paths of several depths, some with the same last component
DepthPaths ==
    { <<"a">>,
      <<"/", "a">>,
      <<"/", "b", "/", "b", "/", "a">>,
      <<"b", "/", ".", ".", "/", "a", "/">>,
      <<"/", "b", "/", "b">> }

RunIdle ==
    /\ pc = "lib"
    /\ argv = Omitted
    /\ args = NoArgs
    /\ i = 0
    /\ k = 0
    /\ mounts = <<>>
    /\ command_args = <<>>
    /\ target_fasta_paths = <<>>
    /\ output_target_path = <<>>
    /\ command = <<>>
    /\ stdout = <<>>
    /\ spawned = <<>>
    /\ childStatus = NoChild
    /\ exitStatus = <<>>

InitMount ==
    /\ cwd \in Cwds
    /\ GlobalsInit
    /\ RunIdle
    /\ call \in [mount_name : NameChoices, path : PathEnum, read_only : BOOLEAN]
    /\ calls = <<>>

FirstCall ==
    /\ Len(calls) = 0
    /\ Invoke(call.mount_name, call.path, call.read_only)

SecondCall ==
    /\ Len(calls) = 1
    /\ \E q \in DepthPaths : Invoke(call.mount_name, q, call.read_only)

NextMount ==
    \/ FirstCall
    \/ SecondCall

SpecMount == InitMount /\ [][NextMount]_vars

----------------------------------------------------------------------------
(* generate_mount called repeatedly with arbitrary arguments.               *)

CallNames == { <<"output">>, <<"data_dir">> }

CallPaths ==
    { <<"/", "a", "/", "seq1.fasta">>, <<"seq1.fasta">>, <<"results", "/">>, <<"/">> }

InitCalls ==
    /\ cwd \in Cwds
    /\ GlobalsInit
    /\ RunIdle
    /\ call = NoCall
    /\ calls = <<>>

AnyCall ==
    /\ Len(calls) < MaxCalls
    /\ \E n \in CallNames, p \in CallPaths, ro \in BOOLEAN : Invoke(n, p, ro)

NextCalls == AnyCall

SpecCalls == InitCalls /\ [][NextCalls]_vars

----------------------------------------------------------------------------
(* Reading a mount line and a flag back.                                    *)

MountSource(m) == Split(m, ":")[1]
MountTarget(m) == Split(m, ":")[2]
MountMode(m) == Split(m, ":")[3]

MntSlash == <<"/", "mnt", "/">>

HasSep(s) == \E j \in 1..Len(s) : s[j] = sep

\* the mounts list is complete: line 83 has run
PlanBuilt ==
    \/ pc \in {"options", "build", "print", "spawn", "wait"}
    \/ (pc = "exited" /\ spawned # <<>>)

ArgNames ==
    << <<"uniref90_database_path">>, <<"mgnify_database_path">>,
       <<"uniclust30_database_path">>, <<"bfd_database_path">>,
       <<"pdb70_database_path">>, <<"data_dir">>, <<"template_mmcif_dir">>,
       <<"obsolete_pdbs_path">> >>

\* the --bind argument of a built command, as a list of mount lines
BindList == Split(command[5], ",")

\* the flags handed to the entry point in a built command
CmdFlags == SubSeq(command, 10, Len(command))

IsFlag(f) == Len(f) >= 3 /\ f[1] = "--" /\ f[3] = "="
FlagName(f) == IF IsFlag(f) THEN <<f[2]>> ELSE <<>>
FlagValue(f) == SubSeq(f, 4, Len(f))

\* value is target/<basename> for a target /mnt/<name> among targets
Under(value, name, targets) ==
    LET target == MntSlash \o name
    IN /\ target \in targets
       /\ Len(value) > Len(target)
       /\ SubSeq(value, 1, Len(target)) = target
       /\ value[Len(target) + 1] = sep
       /\ ~HasSep(SubSeq(value, Len(target) + 2, Len(value)))

SameArgs(a, b) ==
    /\ a.mount_name = b.mount_name
    /\ a.path = b.path
    /\ a.read_only = b.read_only

----------------------------------------------------------------------------
(* C1 *)

\* a mount name that is not empty and neither starts nor ends with "/"
PlainName(n) == n # <<>> /\ ~StartsWithSep(n) /\ ~EndsWithSep(n)

\* what the claim says of one call, but for "never the path itself"
MountShape(c) ==
    LET abs == abspath(cwd, c.path)
        src == MountSource(c.result[1])
        base == basename(abs)
        target == MntSlash \o c.mount_name
    IN /\ c.result[1] = dirname(abs) \o <<":">> \o target \o <<":">>
                          \o (IF c.read_only THEN <<"ro">> ELSE <<"rw">>)
       /\ c.result[2] = target \o <<sep>> \o base
       \* the source is the parent directory of the absolute path
       /\ ~HasSep(base)
       /\ abs = IF EndsWithSep(src) THEN src \o base ELSE src \o <<sep>> \o base

\* the container-visible path depends on the mount name and the basename only
SameBasenameSamePath ==
    \A a, b \in 1..Len(calls) :
        /\ calls[a].mount_name = calls[b].mount_name
        /\ basename(abspath(cwd, calls[a].path)) = basename(abspath(cwd, calls[b].path))
        => calls[a].result[2] = calls[b].result[2]

\* C1 as stated: every call returns 'dirname(abs(P)):/mnt/N:mode' and
\* '/mnt/N/basename(abs(P))', the source being the parent directory of abs(P)
\* and never abs(P) itself, and the container-visible path depends only on N
\* and the basename.
C1_Original ==
    /\ \A j \in 1..Len(calls) :
          /\ MountShape(calls[j])
          /\ MountSource(calls[j].result[1]) # abspath(cwd, calls[j].path)
    /\ SameBasenameSamePath

\* C1 amended: as C1 for every mount name that is not empty and neither
\* starts nor ends with "/", except that the source is the absolute path
\* itself exactly when that path is a root ("/" or "//"), whose dirname is
\* itself.
C1_MountSpec ==
    /\ \A j \in 1..Len(calls) :
          /\ PlainName(calls[j].mount_name) => MountShape(calls[j])
          /\ (MountSource(calls[j].result[1]) = abspath(cwd, calls[j].path))
                <=> AllSep(abspath(cwd, calls[j].path))
    /\ SameBasenameSamePath

\* two calls under one name, a relative path and a deeper absolute one with the
\* same basename, give the same container-visible path
C1_Witness ==
    /\ Len(calls) = 2
    /\ cwd = <<"/", "w">>
    /\ calls[1].mount_name = <<"fasta_path_", "0">>
    /\ calls[1].path = <<".", "/", "a">>
    /\ calls[2].path = <<"/", "b", "/", "b", "/", "a">>
    /\ calls[1].result[1] = <<"/", "w", ":", "/", "mnt", "/", "fasta_path_", "0", ":", "ro">>
    /\ calls[2].result[1] = <<"/", "b", "/", "b", ":", "/", "mnt", "/", "fasta_path_", "0", ":", "ro">>
    /\ calls[1].result[2] = <<"/", "mnt", "/", "fasta_path_", "0", "/", "a">>
    /\ calls[2].result[2] = calls[1].result[2]

----------------------------------------------------------------------------
(* C2 *)

ReadWriteMounts == { j \in 1..Len(mounts) : MountMode(mounts[j]) = <<"rw">> }

\* C2: the mounts of a run are read-only except exactly one, the mount named
\* 'output' built from --output-dir, which is the last of the list; every
\* fasta and database mount is 'ro'; the --bind argument carries that list.
C2_OneReadWriteMount ==
    LET rw == ReadWriteMounts
    IN /\ \A j \in 1..Len(mounts) : MountMode(mounts[j]) \in { <<"ro">>, <<"rw">> }
       /\ ~PlanBuilt => rw = {}
       /\ PlanBuilt =>
             /\ rw = { Len(mounts) }
             /\ mounts[Len(mounts)] =
                   dirname(abspath(cwd, args.output_dir))
                      \o <<":", "/", "mnt", "/", "output", ":", "rw">>
             /\ Len(mounts) >= Len(args.fasta_paths) + 8
       /\ command # <<>> => BindList = mounts

C2_Witness ==
    /\ command # <<>>
    /\ Len(args.fasta_paths) = 2
    /\ args.data_dir # <<>>
    /\ Cardinality(ReadWriteMounts) = 1
    /\ Len(BindList) = 11

----------------------------------------------------------------------------
(* C3 *)

DuplicateBasenames(paths) ==
    \E a, b \in 1..Len(paths) :
        /\ paths[a] # paths[b]
        /\ basename(abspath(cwd, paths[a])) = basename(abspath(cwd, paths[b]))

\* C3: when two distinct paths of --fasta-paths share a basename the launcher
\* fails before building the plan: no mounts list is completed, nothing is
\* printed, no child is spawned, and the launcher does not exit with success.
C3_DuplicateBasenameRejected ==
    argv.fasta_paths.given /\ DuplicateBasenames(argv.fasta_paths.value) =>
        /\ ~PlanBuilt
        /\ stdout = <<>>
        /\ spawned = <<>>
        /\ exitStatus # <<0>>

----------------------------------------------------------------------------
(* C4 *)

\* --fasta-paths /a/seq1.fasta /b/seq2.fasta --data-dir /db --output-dir /out,
\* models and preset left to their defaults
C4_Run ==
    /\ argv.fasta_paths = Given(<< <<"/", "a", "/", "seq1.fasta">>,
                                   <<"/", "b", "/", "seq2.fasta">> >>)
    /\ argv.data_dir = Given(<<"/", "db">>)
    /\ argv.output_dir = Given(<<"/", "out">>)
    /\ argv.models = Omitted
    /\ argv.preset = Omitted

C4_FastaMounts ==
    << <<"/", "a", ":", "/", "mnt", "/", "fasta_path_", "0", ":", "ro">>,
       <<"/", "b", ":", "/", "mnt", "/", "fasta_path_", "1", ":", "ro">> >>

C4_DatabaseMounts ==
    << <<"/", "db", "/", "uniref90", ":", "/", "mnt", "/", "uniref90_database_path", ":", "ro">>,
       <<"/", "db", "/", "mgnify", ":", "/", "mnt", "/", "mgnify_database_path", ":", "ro">>,
       <<"/", "db", "/", "uniclust30", "/", "uniclust30_2018_08", ":", "/", "mnt", "/",
         "uniclust30_database_path", ":", "ro">>,
       <<"/", "db", "/", "bfd", ":", "/", "mnt", "/", "bfd_database_path", ":", "ro">>,
       <<"/", "db", "/", "pdb70", ":", "/", "mnt", "/", "pdb70_database_path", ":", "ro">>,
       <<"/", ":", "/", "mnt", "/", "data_dir", ":", "ro">>,
       <<"/", "db", "/", "pdb_mmcif", ":", "/", "mnt", "/", "template_mmcif_dir", ":", "ro">>,
       <<"/", "db", "/", "pdb_mmcif", ":", "/", "mnt", "/", "obsolete_pdbs_path", ":", "ro">> >>

C4_FastaFlag ==
    <<"--", "fasta_paths", "=", "/", "mnt", "/", "fasta_path_", "0", "/", "seq1.fasta",
      ",", "/", "mnt", "/", "fasta_path_", "1", "/", "seq2.fasta">>

\* C4 as stated: the bind list of that run holds the two fasta mounts, one
\* mount per database path under /db, and the output mount
\* '/out:/mnt/output:rw'; the command holds the --fasta_paths flag.
C4_Original ==
    C4_Run /\ command # <<>> =>
        /\ Range(C4_FastaMounts) \subseteq Range(BindList)
        /\ Range(C4_DatabaseMounts) \subseteq Range(BindList)
        /\ <<"/", "out", ":", "/", "mnt", "/", "output", ":", "rw">> \in Range(BindList)
        /\ C4_FastaFlag \in Range(command)

\* C4 amended: the output mount of that run is '/:/mnt/output:rw' (the parent
\* directory of /out is mounted, as for every other path) and the output flag
\* is '--output_dir=/mnt/output/out'; the bind list is exactly the two fasta
\* mounts, the eight database mounts and the output mount, in that order.
C4_EndToEnd ==
    C4_Run /\ command # <<>> =>
        /\ BindList = C4_FastaMounts \o C4_DatabaseMounts
                        \o << <<"/", ":", "/", "mnt", "/", "output", ":", "rw">> >>
        /\ command[4] = <<"--bind">>
        /\ C4_FastaFlag \in Range(CmdFlags)
        /\ <<"--", "output_dir", "=", "/", "mnt", "/", "output", "/", "out">>
              \in Range(CmdFlags)

C4_Witness ==
    /\ C4_Run
    /\ pc = "exited"
    /\ spawned = <<command>>
    /\ Len(BindList) = 11

----------------------------------------------------------------------------
(* C5 *)

\* C5: once the child has ended and the launcher has exited, the launcher's
\* exit status is the child's exit code.
C5_ExitStatusPropagated ==
    pc = "exited" /\ childStatus.state = "exited" => exitStatus = <<childStatus.code>>

----------------------------------------------------------------------------
(* C6 *)

\* the mount name the launcher gives the j-th mount of a complete list
ExpectedNames ==
    [ j \in 1..Len(args.fasta_paths) |-> <<"fasta_path_">> \o IntToStr(j - 1) ]
    \o (IF args.data_dir = <<>>
        THEN SubSeq(ArgNames, 1, 5) \o SubSeq(ArgNames, 7, 8)
        ELSE ArgNames)
    \o << <<"output">> >>

\* the container-visible paths computed so far
VisiblePaths ==
    target_fasta_paths
    \o [ j \in 1..(Len(mounts) - Len(target_fasta_paths) - (IF PlanBuilt THEN 1 ELSE 0))
            |-> FlagValue(command_args[j + 1]) ]
    \o (IF PlanBuilt THEN <<output_target_path>> ELSE <<>>)

\* C6: the mount names of a run are pairwise distinct (fasta_path_0.., the
\* names of arg_paths, 'output'), so the targets /mnt/<name> of the mounts are
\* pairwise distinct and so are the container-visible paths, whatever the
\* host paths.
C6_DistinctTargets ==
    LET names == ExpectedNames
        visible == VisiblePaths
    IN /\ \A a, b \in 1..Len(mounts) : a # b => names[a] # names[b]
       /\ \A a \in 1..Len(mounts) : MountTarget(mounts[a]) = MntSlash \o names[a]
       /\ Cardinality({ MountTarget(mounts[a]) : a \in 1..Len(mounts) }) = Len(mounts)
       /\ Len(visible) = Len(mounts)
       /\ Cardinality(Range(visible)) = Len(visible)
       /\ command # <<>> => BindList = mounts

\* fasta paths with the same basename, and others with the same parent
C6_Witness ==
    /\ PlanBuilt
    /\ command # <<>>
    /\ Len(args.fasta_paths) = 2
    /\ \/ /\ basename(args.fasta_paths[1]) = basename(args.fasta_paths[2])
          /\ args.fasta_paths[1] # args.fasta_paths[2]
       \/ args.fasta_paths[1] = args.fasta_paths[2]
    /\ MountSource(mounts[1]) = MountSource(mounts[2])
          \/ basename(target_fasta_paths[1]) = basename(target_fasta_paths[2])
    /\ target_fasta_paths[1] # target_fasta_paths[2]

----------------------------------------------------------------------------
(* C7 *)

\* number of arg_paths entries with a non-empty path
ArgMountCount == IF args.data_dir = <<>> THEN 7 ELSE 8

\* every mount and every flag has been appended and the command holds them
CommandComplete ==
    /\ Len(mounts) = Len(args.fasta_paths) + ArgMountCount + 1
    /\ Len(command_args) = 1 + ArgMountCount + 6
    /\ Len(command) = 9 + Len(command_args)
    /\ command[1] = <<"singularity">>
    /\ command[2] = <<"exec">>
    /\ BindList = mounts
    /\ CmdFlags = command_args
    /\ command[Len(command)] = <<"--logtostderr">>

\* C7: in a run whose parsing succeeds the complete command is printed once,
\* then one child is spawned with that same command, the launcher waits until
\* the child has ended, and no second child is ever spawned, whatever the
\* child's exit code.
C7_PrintThenSpawnOnce ==
    /\ Len(stdout) <= 1
    /\ Len(spawned) <= 1
    /\ stdout # <<>> =>
          /\ CommandComplete
          /\ stdout[1] = <<"Executing: ">> \o Join(<<" ">>, command)
    /\ spawned # <<>> =>
          /\ stdout # <<>>
          /\ spawned[1] = command
    /\ (childStatus.state # "none") <=> (spawned # <<>>)
    /\ childStatus.state = "running" => pc = "wait"
    /\ pc = "spawn" => stdout # <<>> /\ spawned = <<>>
    /\ pc = "exited" /\ ArgvAccepted(argv) =>
          /\ Len(spawned) = 1
          /\ childStatus.state = "exited"
    /\ ~ArgvAccepted(argv) => stdout = <<>> /\ spawned = <<>>

\* the child failed and the launcher has exited without a second spawn
C7_Witness ==
    /\ pc = "exited"
    /\ ArgvAccepted(argv)
    /\ childStatus = [state |-> "exited", code |-> 1]
    /\ Len(spawned) = 1
    /\ Len(stdout) = 1

----------------------------------------------------------------------------
(* C8 *)

\* C8: two calls of generate_mount with the same (mount_name, path, read_only)
\* return the same pair, whatever calls were made in between, and no call
\* changes ROOT_MOUNT_DIRECTORY, CONTAINER_IMAGE or AVAILABLE_MODELS.
C8_Idempotent ==
    /\ \A a, b \in 1..Len(calls) :
          SameArgs(calls[a], calls[b]) => calls[a].result = calls[b].result
    /\ ROOT_MOUNT_DIRECTORY = <<"/", "mnt">>
    /\ CONTAINER_IMAGE =
          <<"docker", ":", "/", "/", "catgumag", "/", "alphafold", ":", "latest">>
    /\ AVAILABLE_MODELS = << <<"model_1">>, <<"model_2">>, <<"model_3">>,
                             <<"model_4">>, <<"model_5">> >>

\* the same call made again after a call with another name, path and mode
C8_Witness ==
    /\ Len(calls) = 3
    /\ SameArgs(calls[1], calls[3])
    /\ calls[2].mount_name # calls[1].mount_name
    /\ calls[2].path # calls[1].path
    /\ calls[2].read_only # calls[1].read_only
    /\ calls[1].path = <<"seq1.fasta">>
    /\ calls[3].result = calls[1].result

----------------------------------------------------------------------------
(* C9 *)

ModelFlags == { f \in Range(CmdFlags) : FlagName(f) = <<"model_names">> }

\* C9: without --models the command holds exactly
\* '--model_names=model_1,model_2,model_3,model_4,model_5'; with --models the
\* flag holds the given names, comma-joined in the given order, each of them
\* one of the five known names.
C9_ModelNames ==
    command # <<>> =>
        /\ ~argv.models.given =>
              ModelFlags = { <<"--", "model_names", "=", "model_1", ",", "model_2", ",",
                               "model_3", ",", "model_4", ",", "model_5">> }
        /\ argv.models.given =>
              /\ ModelFlags = { <<"--", "model_names", "=">>
                                   \o Join(<<",">>, argv.models.value) }
              /\ \A f \in ModelFlags :
                    \A n \in Range(Split(FlagValue(f), ",")) :
                        n \in { <<"model_1">>, <<"model_2">>, <<"model_3">>,
                                <<"model_4">>, <<"model_5">> }

C9_Witness ==
    /\ command # <<>>
    /\ ~argv.models.given
    /\ <<"--", "model_names", "=", "model_1", ",", "model_2", ",",
         "model_3", ",", "model_4", ",", "model_5">> \in Range(command)

\* --models model_2 model_1 keeps the order given
C9_WitnessGiven ==
    /\ command # <<>>
    /\ argv.models.given
    /\ <<"--", "model_names", "=", "model_2", ",", "model_1">> \in Range(command)

----------------------------------------------------------------------------
(* C10 *)

FlagsNamed(flags, name) == { j \in 1..Len(flags) : FlagName(flags[j]) = name }

\* C10: in a built command every path-valued flag (each entry of
\* --fasta_paths, each flag of an arg_paths entry, --output_dir) has a value
\* '/mnt/<name>/<basename>' under the target '/mnt/<name>' of an entry of the
\* --bind list; a flag of an arg_paths entry is there exactly when its mount
\* is, and both are missing exactly when the path is empty; with a non-empty
\* data-dir the bind list has len(fasta_paths) + 9 entries: the fasta mounts,
\* the eight arg_paths mounts, the output mount, in this order.
C10_FlagsUnderMounts ==
    command # <<>> =>
        LET bindList == BindList
            cmdFlags == CmdFlags
            nFasta == Len(args.fasta_paths)
            bindTargets == { MountTarget(bindList[j]) : j \in 1..Len(bindList) }
        IN /\ bindList = mounts
           /\ command[4] = <<"--bind">>
           /\ \A j \in FlagsNamed(cmdFlags, <<"fasta_paths">>) :
                 LET entries == Split(FlagValue(cmdFlags[j]), ",")
                 IN /\ Len(entries) = nFasta
                    /\ \A e \in 1..nFasta :
                          Under(entries[e], <<"fasta_path_">> \o IntToStr(e - 1),
                                bindTargets)
           /\ \A a \in 1..Len(ArgNames) :
                 /\ \A j \in FlagsNamed(cmdFlags, ArgNames[a]) :
                       Under(FlagValue(cmdFlags[j]), ArgNames[a], bindTargets)
                 /\ (FlagsNamed(cmdFlags, ArgNames[a]) # {})
                       <=> (MntSlash \o ArgNames[a] \in bindTargets)
                 /\ (FlagsNamed(cmdFlags, ArgNames[a]) = {})
                       <=> (arg_paths(args.data_dir)[a][2] = <<>>)
                 /\ Cardinality(FlagsNamed(cmdFlags, ArgNames[a])) <= 1
           /\ \A j \in FlagsNamed(cmdFlags, <<"output_dir">>) :
                 Under(FlagValue(cmdFlags[j]), <<"output">>, bindTargets)
           /\ Cardinality(FlagsNamed(cmdFlags, <<"fasta_paths">>)) = 1
           /\ Cardinality(FlagsNamed(cmdFlags, <<"output_dir">>)) = 1
           /\ args.data_dir # <<>> =>
                 /\ Len(bindList) = nFasta + 9
                 /\ \A j \in 1..nFasta :
                       MountTarget(bindList[j])
                          = MntSlash \o <<"fasta_path_">> \o IntToStr(j - 1)
                 /\ \A a \in 1..8 :
                       MountTarget(bindList[nFasta + a]) = MntSlash \o ArgNames[a]
                 /\ MountTarget(bindList[nFasta + 9]) = <<"/", "mnt", "/", "output">>

\* --data-dir "" : neither the data_dir mount nor the --data_dir flag
C10_Witness ==
    /\ command # <<>>
    /\ args.data_dir = <<>>
    /\ Len(args.fasta_paths) = 2
    /\ Len(BindList) = 10
    /\ FlagsNamed(CmdFlags, <<"data_dir">>) = {}
    /\ FlagsNamed(CmdFlags, <<"uniref90_database_path">>) # {}

=============================================================================
